---- MODULE Spec2Model ----
(***************************************************************************)
(* Model of the Blazee Python client (blazee/client.py, blazee/model.py):  *)
(* one caller driving a Client and one BlazeeModel handle against the      *)
(* remote service.  Every request the client sends is one step; the        *)
(* service answers each request with a success or with a failure reply.    *)
(***************************************************************************)
EXTENDS Integers, Sequences, FiniteSets, TLC

\* ------------------------------------------------------------------ bounds
\* models the service creates in one run
MaxModels == 2
\* versions the service creates per model
MaxVersions == 2
\* largest service-side timestamp
MaxClock == 3
\* largest small retry budget given to _wait_for_depoyment
MaxTries == 2
\* longest `details` list of an error body
MaxDetails == 2

Names      == {"n1", "n2"}
\* An id uuid.UUID() rejects, and the ids it accepts.
BadId    == 0 - 1
ModelIds == 1 .. MaxModels

\* ------------------------------------------------------- exceptions, JSON
Exc(type, msg) == [type |-> type, msg |-> msg]
NoExc == Exc("none", <<>>)

Raised(e)   == [raised |-> TRUE,  exc |-> e,     value |-> <<>>]
Returned(v) == [raised |-> FALSE, exc |-> NoExc, value |-> v]

JsonObject(v) == [kind |-> "object",  val |-> v]
JsonArray(v)  == [kind |-> "array",   val |-> v]
InvalidJson   == [kind |-> "invalid", val |-> <<>>]

\* Python's `key in body`: a key of a dict; for a list, an element of it (the
\* lists the service returns hold objects only, so a string is never in one).
HasKey(body, key) ==
    IF body.kind = "object" THEN key \in DOMAIN body.val ELSE FALSE

ServerErrorText == "Internal Server Error: Please contact us at support@blazee.io"
InvalidKeyText  == "Invalid API Key. Get your API key on https://blazee.io"

\* The message with the code and the message of the error swapped.
ErrorMsgReversed(status, error) ==
    <<ToString(status), error.message, error.code>> \o error.details

\* The message of the HTTPError built from an error body.
ErrorMsg(status, error) ==
    <<ToString(status), error.code, error.message>> \o error.details

\* A variant of _api_call that parses the body before it looks at the status.
_api_call_body_first(resp) ==
    IF resp.body.kind = "invalid" THEN
        Raised(Exc("JSONDecodeError", <<>>))
    ELSE IF resp.status >= 500 THEN
        Raised(Exc("HTTPError", <<ToString(resp.status), ServerErrorText>>))
    ELSE IF resp.status = 403 THEN
        Raised(Exc("HTTPError", <<InvalidKeyText>>))
    ELSE IF HasKey(resp.body, "error") THEN
        LET error == resp.body.val.error IN
        IF ~ ({"code", "message", "details"} \subseteq DOMAIN error)
        THEN Raised(Exc("KeyError", <<>>))
        ELSE Raised(Exc("HTTPError", ErrorMsg(resp.status, error)))
    ELSE Returned(resp.body.val)

\* A variant of _api_call without the test for status 403.
_api_call_no_403(resp) ==
    IF resp.status >= 500 THEN
        Raised(Exc("HTTPError", <<ToString(resp.status), ServerErrorText>>))
    ELSE IF resp.body.kind = "invalid" THEN
        Raised(Exc("JSONDecodeError", <<>>))
    ELSE IF HasKey(resp.body, "error") THEN
        LET error == resp.body.val.error IN
        IF ~ ({"code", "message", "details"} \subseteq DOMAIN error)
        THEN Raised(Exc("KeyError", <<>>))
        ELSE Raised(Exc("HTTPError", ErrorMsg(resp.status, error)))
    ELSE Returned(resp.body.val)

\* Client._api_call from the response on.
_api_call(resp) ==
    IF resp.status >= 500 THEN
        Raised(Exc("HTTPError", <<ToString(resp.status), ServerErrorText>>))
    ELSE IF resp.status = 403 THEN
        Raised(Exc("HTTPError", <<InvalidKeyText>>))
    ELSE IF resp.body.kind = "invalid" THEN
        Raised(Exc("JSONDecodeError", <<>>))
    ELSE IF HasKey(resp.body, "error") THEN
        LET error == resp.body.val.error IN
        IF ~ ({"code", "message", "details"} \subseteq DOMAIN error)
        THEN Raised(Exc("KeyError", <<>>))
        ELSE Raised(Exc("HTTPError", ErrorMsg(resp.status, error)))
    ELSE Returned(resp.body.val)

\* raise_for_status raising for 5xx only.
raise_for_status_5xx(status) ==
    IF status >= 500 /\ status < 600
    THEN Raised(Exc("HTTPError", <<ToString(status)>>))
    ELSE Returned(<<>>)

\* Response.raise_for_status of the binary upload: 4xx and 5xx raise.
raise_for_status(status) ==
    IF status >= 400 /\ status < 600
    THEN Raised(Exc("HTTPError", <<ToString(status)>>))
    ELSE Returned(<<>>)

\* -------------------------------------------------------- handle objects
NoVersion == [id |-> 0]
NoHandle  == [id |-> 0]
NoResp    == [id |-> 0]

ParseDate(s) == s.iso

ModelVersion(response) ==
    [id         |-> response.id,
     name       |-> response.name,
     type       |-> response.type,
     meta       |-> response.meta,
     deployed   |-> response.deployed,
     created_at |-> ParseDate(response.created_at),
     updated_at |-> ParseDate(response.updated_at)]

_reset(_deleted, response) ==
    [id              |-> response.id,
     name            |-> response.name,
     default_version |-> IF response.default_version # NoVersion
                         THEN ModelVersion(response.default_version)
                         ELSE NoVersion,
     created_at      |-> ParseDate(response.created_at),
     updated_at      |-> ParseDate(response.updated_at),
     _deleted        |-> _deleted]

BlazeeModel(response) == _reset(FALSE, response)

\* Python attribute lookup on an object made by BlazeeModel.
HasAttr(obj, attr) == attr \in DOMAIN obj

\* ------------------------------------------------------ the remote service
\* The service holds at most one live model.  A version is "created" (record
\* made, binary awaited), "uploaded", "deploying", "deployed" or "error".
VersionSummary(s, v) ==
    [id               |-> ToString(v),
     name             |-> "v" \o ToString(v),
     type             |-> "sklearn",
     meta             |-> "meta",
     deployed         |-> s.vers[v] = "deployed",
     deployment_error |-> s.vers[v] = "error",
     created_at       |-> [iso |-> s.created],
     updated_at       |-> [iso |-> s.upd]]

\* The summary of the model; its two status flags are those of its newest
\* version.
ModelSummary(s) ==
    [id               |-> s.id,
     name             |-> s.name,
     default_version  |-> IF s.defver = 0 THEN NoVersion
                          ELSE VersionSummary(s, s.defver),
     created_at       |-> [iso |-> s.created],
     updated_at       |-> [iso |-> s.upd],
     uploaded         |-> s.vers[Len(s.vers)] = "deployed",
     deployment_error |-> s.vers[Len(s.vers)] = "error"]

ErrorBody(code, details) ==
    JsonObject([error |-> [code |-> code, message |-> "msg", details |-> details]])

\* The failure replies of the JSON API.
FailReplies ==
    { [status |-> 500, body |-> InvalidJson],
      [status |-> 403, body |-> ErrorBody("FORBIDDEN", <<>>)],
      [status |-> 403, body |-> InvalidJson],
      [status |-> 404, body |-> ErrorBody("MODEL_NOT_FOUND", <<"d1">>)] }

Fail(s) == { [resp |-> f, srv |-> s] : f \in FailReplies }

Ok(s, v) == [resp |-> [status |-> 200, body |-> v], srv |-> s]

Tick(s) == [s EXCEPT !.clock = @ + 1, !.upd = s.clock + 1]

Live(s, id) == s.exists /\ s.id = id

\* POST /models
SrvCreateModel(s, name) ==
    Fail(s) \cup
    IF ~s.exists /\ s.id < MaxModels /\ s.clock < MaxClock
    THEN LET t == [exists |-> TRUE, id |-> s.id + 1, name |-> name,
                   defver |-> 0, vers |-> <<"created">>,
                   clock |-> s.clock + 1, created |-> s.clock + 1,
                   upd |-> s.clock + 1]
         IN { Ok(t, JsonObject(ModelSummary(t) @@ [upload_data |-> 1])) }
    ELSE {}

\* GET /models/{id}
SrvGetModel(s, id) ==
    Fail(s) \cup
    IF Live(s, id) THEN { Ok(s, JsonObject(ModelSummary(s))) } ELSE {}

\* PATCH /models/{id} with {name}
SrvRename(s, id, name) ==
    Fail(s) \cup
    IF Live(s, id) /\ s.clock < MaxClock
    THEN LET t == Tick([s EXCEPT !.name = name])
         IN { Ok(t, JsonObject(ModelSummary(t))) }
    ELSE {}

\* DELETE /models/{id}: answered with a JSON body or with an empty one.
SrvDelete(s, id) ==
    Fail(s) \cup
    IF Live(s, id)
    THEN LET t == [s EXCEPT !.exists = FALSE]
         IN { Ok(t, JsonObject([deleted |-> TRUE])),
              [resp |-> [status |-> 204, body |-> InvalidJson], srv |-> t] }
    ELSE {}

\* GET /models/{id}/versions
SrvVersions(s, id) ==
    Fail(s) \cup
    IF Live(s, id)
    THEN { Ok(s, JsonArray([v \in 1 .. Len(s.vers) |-> VersionSummary(s, v)])) }
    ELSE {}

\* POST /models/{id}/versions
SrvCreateVersion(s, id) ==
    Fail(s) \cup
    IF Live(s, id) /\ Len(s.vers) < MaxVersions /\ s.clock < MaxClock
    THEN LET t == Tick([s EXCEPT !.vers = Append(@, "created")])
         IN { Ok(t, JsonObject(VersionSummary(t, Len(t.vers))
                               @@ [upload_data |-> 1])) }
    ELSE {}

\* PATCH /models/{id}/versions/{vid}/deploy
SrvDeploy(s, id, vid) ==
    Fail(s) \cup
    IF Live(s, id)
    THEN { Ok([s EXCEPT !.vers[v] = IF @ = "uploaded" THEN "deploying" ELSE @],
              JsonObject(VersionSummary(
                  [s EXCEPT !.vers[v] = IF @ = "uploaded" THEN "deploying" ELSE @],
                  v))) :
           v \in { w \in 1 .. Len(s.vers) :
                      ToString(w) = vid /\ s.vers[w] # "created" } }
    ELSE {}

\* A list of class probabilities, as the service writes it.
SomeProbas == "[0.9, 0.1]"

\* POST /models/{id}/predict
SrvPredict(s, id) ==
    Fail(s) \cup
    IF Live(s, id) /\ s.defver # 0
    THEN { Ok(s, JsonObject([prediction |-> 1])),
           Ok(s, JsonObject([prediction |-> 0, probas |-> SomeProbas])) }
    ELSE {}

\* POST /models/{id}/predict_batch
SrvPredictBatch(s, id) ==
    Fail(s) \cup
    IF Live(s, id) /\ s.defver # 0
    THEN { Ok(s, JsonArray(<<[prediction |-> 1],
                             [prediction |-> 0, probas |-> SomeProbas]>>)) }
    ELSE {}

\* POST /models/{id}/versions/{vid}/predict
SrvVersionPredict(s, id, vid) ==
    Fail(s) \cup
    IF Live(s, id) /\ \E v \in 1 .. Len(s.vers) :
                         ToString(v) = vid /\ s.vers[v] = "deployed"
    THEN { Ok(s, JsonObject([prediction |-> 1])),
           Ok(s, JsonObject([prediction |-> 0, probas |-> SomeProbas])) }
    ELSE {}

\* POST /models/{id}/versions/{vid}/predict_batch
SrvVersionPredictBatch(s, id, vid) ==
    Fail(s) \cup
    IF Live(s, id) /\ \E v \in 1 .. Len(s.vers) :
                         ToString(v) = vid /\ s.vers[v] = "deployed"
    THEN { Ok(s, JsonArray(<<[prediction |-> 1],
                             [prediction |-> 0, probas |-> SomeProbas]>>)) }
    ELSE {}

\* PATCH /models/{id} with {default_version_id}
SrvMakeDefault(s, id, vid) ==
    Fail(s) \cup
    IF Live(s, id) /\ s.clock < MaxClock
    THEN { Ok(Tick([s EXCEPT !.defver = v]),
              JsonObject(ModelSummary(Tick([s EXCEPT !.defver = v])))) :
           v \in { w \in 1 .. Len(s.vers) :
                      ToString(w) = vid /\ s.vers[w] = "deployed" } }
    ELSE {}

\* POST to the pre-signed upload target: the statuses it answers with, and
\* the service after a stored upload (the newest version holds its binary).
UploadStatuses == {204, 403, 500}

SrvUpload(s, status) ==
    IF status = 204 /\ s.exists /\ s.vers[Len(s.vers)] = "created"
    THEN [s EXCEPT !.vers[Len(s.vers)] = "uploaded"]
    ELSE s

\* ------------------------------------------------------------- the state
VARIABLES
    pc,          \* where the caller is: "idle" or inside an operation
    op,          \* the operation running, or the last one run
    handle,      \* the BlazeeModel the caller holds, or NoHandle
    before,      \* the handle as it was when the operation began
    model,       \* the BlazeeModel local to _create_model
    resp,        \* the response of the create request of the operation
    deploy_resp, \* the response of the deploy trigger
    tries,       \* iterations _wait_for_depoyment has completed
    max_tries,   \* its retry budget
    polls,       \* what each status fetch of the operation was answered
    result,      \* the value the last operation returned
    log,         \* the requests the operation has sent, in order
    outcome,     \* how the last operation ended
    srv,         \* the remote service
    arg,         \* the input of a function run on its own
    fs           \* the files of the working directory

vars == <<pc, op, handle, before, model, resp, deploy_resp, tries, max_tries, polls,
          result, log, outcome, srv, arg, fs>>

\* One exchange: the request sent and the status of the reply.
Request(method, path, id, status) ==
    [method |-> method, path |-> path, id |-> id, status |-> status]

NoResult  == [id |-> 0]
NoArg     == [id |-> 0]
NoFiles   == [id |-> 0]
NoOutcome == [status |-> "none", exc |-> NoExc]
Raise(e)  == [status |-> "raised", exc |-> e]
Return    == [status |-> "returned", exc |-> NoExc]

Init ==
    /\ pc = "idle"
    /\ op = "none"
    /\ handle = NoHandle
    /\ before = NoHandle
    /\ model = NoHandle
    /\ resp = NoResp
    /\ deploy_resp = NoResp
    /\ tries = 0
    /\ max_tries = 0
    /\ polls = <<>>
    /\ result = NoResult
    /\ log = <<>>
    /\ outcome = NoOutcome
    /\ srv = [exists |-> FALSE, id |-> 0, name |-> "n1", defver |-> 0,
              vers |-> <<"created">>, clock |-> 0, created |-> 0, upd |-> 0]
    /\ arg = NoArg
    /\ fs = NoFiles

\* The caller starts operation o.
Begin(o, budget) ==
    /\ pc = "idle"
    /\ op' = o
    /\ before' = handle
    /\ tries' = 0
    /\ max_tries' = budget
    /\ polls' = <<>>

\* The operation goes on at p.
Continue(p) ==
    /\ pc' = p
    /\ outcome' = NoOutcome

\* The operation ends: it has returned, or raised, to the caller.
End(o) ==
    /\ pc' = "done"
    /\ outcome' = o

\* The caller has the outcome of the operation and goes on; the locals of
\* the operation are gone.
CallerResumes ==
    /\ pc = "done"
    /\ pc' = "idle"
    /\ op' = "none"
    /\ before' = NoHandle
    /\ model' = NoHandle
    /\ resp' = NoResp
    /\ deploy_resp' = NoResp
    /\ tries' = 0
    /\ max_tries' = 0
    /\ polls' = <<>>
    /\ result' = NoResult
    /\ log' = <<>>
    /\ outcome' = NoOutcome
    /\ arg' = NoArg
    /\ UNCHANGED <<handle, srv, fs>>

\* A variant of the UUID test that accepts every identifier.
IsUUID_any(id) == id \in ModelIds \cup {BadId}

\* uuid.UUID(model_id) does not raise ValueError
IsUUID(id) == id \in ModelIds

\* _check_deleted without its test.
_check_deleted_never(self) == Returned(<<>>)

\* BlazeeModel._check_deleted
_check_deleted(self) ==
    IF self._deleted
    THEN Raised(Exc("AssertionError", <<"Model is deleted. Cannot perform operation">>))
    ELSE Returned(<<>>)

\* ------------------------------------------------- the service's own steps
\* A version whose binary has arrived finishes deploying; the first version
\* deployed becomes the default version.
SrvDeployed ==
    /\ srv.exists /\ srv.clock < MaxClock
    /\ \E v \in 1 .. Len(srv.vers) :
         /\ srv.vers[v] \in {"uploaded", "deploying"}
         /\ srv' = Tick([srv EXCEPT !.vers[v] = "deployed",
                                    !.defver = IF @ = 0 THEN v ELSE @])
    /\ UNCHANGED <<pc, op, handle, before, model, resp, deploy_resp, tries, max_tries,
                   polls, result, log, outcome>>
    /\ UNCHANGED <<arg, fs>>

\* The deployment of a version fails on the service.
SrvDeploymentError ==
    /\ srv.exists
    /\ \E v \in 1 .. Len(srv.vers) :
         /\ srv.vers[v] \in {"uploaded", "deploying"}
         /\ srv' = [srv EXCEPT !.vers[v] = "error"]
    /\ UNCHANGED <<pc, op, handle, before, model, resp, deploy_resp, tries, max_tries,
                   polls, result, log, outcome>>
    /\ UNCHANGED <<arg, fs>>

\* ------------------------------------------------------------ Client
\* What a status fetch was answered: the flags of the summary, or a failure.
Poll(r) ==
    IF r.status = 200
    THEN [ok |-> TRUE, uploaded |-> r.body.val.uploaded,
          deployment_error |-> r.body.val.deployment_error]
    ELSE [ok |-> FALSE, uploaded |-> FALSE, deployment_error |-> FALSE]

\* Client.get_model from the response on.
get_model(r) ==
    LET res == _api_call(r) IN
    IF res.raised THEN res ELSE Returned(BlazeeModel(res.value))

\* Client.get_model called by the caller, who keeps the handle it returns.
GetModel ==
    /\ Begin("get_model", 0)
    /\ \E model_id \in ModelIds \cup {BadId} :
         /\ arg' = model_id
         /\ IF ~IsUUID(model_id)
            THEN /\ End(Raise(Exc("ValueError", <<"Malformed model ID">>)))
                 /\ log' = <<>>
                 /\ UNCHANGED <<handle, srv>>
            ELSE \E r \in SrvGetModel(srv, model_id) :
                   LET m == get_model(r.resp) IN
                   /\ log' = <<Request("GET", "/models/{id}", model_id, r.resp.status)>>
                   /\ srv' = r.srv
                   /\ IF m.raised
                      THEN End(Raise(m.exc)) /\ UNCHANGED handle
                      ELSE End(Return) /\ handle' = m.value
    /\ model' = NoHandle /\ resp' = NoResp /\ deploy_resp' = NoResp
    /\ result' = NoResult
    /\ UNCHANGED fs

\* The retry budgets: small ones, and the default of _wait_for_depoyment.
DefaultMaxTries == 30
Budgets == (0 .. MaxTries) \cup {DefaultMaxTries}

DefaultName == "LogisticRegressionCV 2019-05-01T00:00:00"

\* A variant of _create_model that sends POST /models a second time when the
\* first one failed.
_create_model_retry(type, model_name) ==
    \E r \in SrvCreateModel(srv, model_name) :
      LET response == _api_call(r.resp) IN
      /\ srv' = r.srv
      /\ IF response.raised
         THEN /\ End(Raise(response.exc)) /\ resp' = NoResp
              /\ log' = <<Request("POST", "/models", 0, r.resp.status),
                          Request("POST", "/models", 0, r.resp.status)>>
         ELSE /\ Continue("upload") /\ resp' = response.value
              /\ log' = <<Request("POST", "/models", 0, r.resp.status)>>

\* Client._create_model up to the response of POST /models.
_create_model(type, model_name) ==
    \E r \in SrvCreateModel(srv, model_name) :
      LET response == _api_call(r.resp) IN
      /\ log' = <<Request("POST", "/models", 0, r.resp.status)>>
      /\ srv' = r.srv
      /\ IF response.raised
         THEN End(Raise(response.exc)) /\ resp' = NoResp
         ELSE Continue("upload") /\ resp' = response.value

\* Client.deploy_sklearn (deploy_model passes the same estimators on to it).
deploy_sklearn ==
    /\ \E budget \in Budgets : Begin("deploy_sklearn", budget)
    /\ \E is_estimator \in BOOLEAN, name \in Names \cup {""} :
         IF ~is_estimator
         THEN /\ End(Raise(Exc("TypeError", <<"Model is not a valid Scikit Learn estimator">>)))
              /\ log' = <<>>
              /\ resp' = NoResp
              /\ UNCHANGED srv
         ELSE _create_model("sklearn", IF name = "" THEN DefaultName ELSE name)
    /\ model' = NoHandle /\ deploy_resp' = NoResp /\ result' = NoResult
    /\ UNCHANGED handle
    /\ UNCHANGED <<arg, fs>>

\* Client._create_model: the upload to the pre-signed target.
_create_model_upload ==
    /\ pc = "upload"
    /\ \E status \in UploadStatuses :
         LET upload_resp == raise_for_status(status) IN
         /\ log' = Append(log, Request("POST", "upload_data.url", resp.id, status))
         /\ srv' = SrvUpload(srv, status)
         /\ IF upload_resp.raised
            THEN End(Raise(upload_resp.exc)) /\ UNCHANGED model
            ELSE Continue("poll") /\ model' = BlazeeModel(resp)
    /\ UNCHANGED <<op, handle, before, resp, deploy_resp, tries, max_tries, polls, result>>
    /\ UNCHANGED <<arg, fs>>

\* Client._wait_for_depoyment: one iteration of the loop.
_wait_for_depoyment ==
    /\ pc = "poll"
    /\ tries < max_tries
    /\ IF ~IsUUID(model.id)
       THEN /\ End(Raise(Exc("ValueError", <<"Malformed model ID">>)))
            /\ UNCHANGED <<log, polls, srv, tries, handle>>
       ELSE \E r \in SrvGetModel(srv, model.id) :
              LET got == get_model(r.resp) IN
              /\ log' = Append(log, Request("GET", "/models/{id}", model.id, r.resp.status))
              /\ polls' = Append(polls, Poll(r.resp))
              /\ srv' = r.srv
              /\ IF got.raised
                 THEN End(Raise(got.exc)) /\ UNCHANGED <<tries, handle>>
                 ELSE LET m == got.value IN
                      IF ~HasAttr(m, "uploaded")
                      THEN /\ End(Raise(Exc("AttributeError", <<"uploaded">>)))
                           /\ UNCHANGED <<tries, handle>>
                      ELSE IF m.uploaded
                      THEN End(Return) /\ handle' = model /\ UNCHANGED tries
                      ELSE Continue("poll") /\ tries' = tries + 1 /\ UNCHANGED handle
    /\ UNCHANGED <<op, before, model, resp, deploy_resp, max_tries, result>>
    /\ UNCHANGED <<arg, fs>>

\* Client._wait_for_depoyment: the budget is used up, TimeoutError is raised
\* and _create_model catches it.
_wait_for_depoyment_timeout ==
    /\ pc = "poll"
    /\ tries >= max_tries
    /\ Continue("rollback")
    /\ UNCHANGED <<op, handle, before, model, resp, deploy_resp, tries, max_tries,
                   polls, result, log, srv>>
    /\ UNCHANGED <<arg, fs>>

\* Client._create_model: the handler of TimeoutError deletes the model and
\* raises RuntimeError.
_create_model_rollback ==
    /\ pc = "rollback"
    /\ LET chk == _check_deleted(model) IN
       IF chk.raised
       THEN End(Raise(chk.exc)) /\ UNCHANGED <<log, srv, model>>
       ELSE \E r \in SrvDelete(srv, model.id) :
              LET res == _api_call(r.resp) IN
              /\ log' = Append(log, Request("DELETE", "/models/{id}", model.id, r.resp.status))
              /\ srv' = r.srv
              /\ IF res.raised
                 THEN End(Raise(res.exc)) /\ UNCHANGED model
                 ELSE /\ End(Raise(Exc("RuntimeError", <<"Error deploying model">>)))
                      /\ model' = [model EXCEPT !._deleted = TRUE]
    /\ UNCHANGED <<op, handle, before, resp, deploy_resp, tries, max_tries, polls, result>>
    /\ UNCHANGED <<arg, fs>>

\* ------------------------------------------------------- BlazeeModel
DeletedError == Exc("AssertionError", <<"Model is deleted. Cannot perform operation">>)

\* prediction.Prediction
None == "None"
Prediction(r) ==
    [prediction |-> r.prediction,
     probas     |-> IF "probas" \in DOMAIN r THEN r.probas ELSE None]

\* A variant of Predictions that returns the predictions in reverse order.
PredictionsReversed(elements) ==
    [i \in DOMAIN elements |-> Prediction(elements[Len(elements) + 1 - i])]

\* The list BlazeeModel.predict_batch builds from the response.
Predictions(elements) ==
    [i \in DOMAIN elements |-> Prediction(elements[i])]

\* An operation of the handle that sends nothing because _check_deleted
\* raised.
Refused ==
    /\ End(Raise(_check_deleted(handle).exc))
    /\ log' = <<>>
    /\ result' = NoResult
    /\ UNCHANGED <<handle, srv>>

\* A variant of delete that marks the handle deleted before it knows the
\* outcome of the request.
delete_flag_first ==
    /\ Begin("delete", 0)
    /\ handle # NoHandle
    /\ IF _check_deleted(handle).raised
       THEN Refused
       ELSE \E r \in SrvDelete(srv, handle.id) :
              LET res == _api_call(r.resp) IN
              /\ log' = <<Request("DELETE", "/models/{id}", handle.id, r.resp.status)>>
              /\ srv' = r.srv
              /\ result' = NoResult
              /\ handle' = [handle EXCEPT !._deleted = TRUE]
              /\ IF res.raised THEN End(Raise(res.exc)) ELSE End(Return)
    /\ model' = NoHandle /\ resp' = NoResp /\ deploy_resp' = NoResp
    /\ UNCHANGED <<arg, fs>>

\* BlazeeModel.delete
delete ==
    /\ Begin("delete", 0)
    /\ handle # NoHandle
    /\ IF _check_deleted(handle).raised
       THEN Refused
       ELSE \E r \in SrvDelete(srv, handle.id) :
              LET res == _api_call(r.resp) IN
              /\ log' = <<Request("DELETE", "/models/{id}", handle.id, r.resp.status)>>
              /\ srv' = r.srv
              /\ result' = NoResult
              /\ IF res.raised
                 THEN End(Raise(res.exc)) /\ UNCHANGED handle
                 ELSE End(Return) /\ handle' = [handle EXCEPT !._deleted = TRUE]
    /\ model' = NoHandle /\ resp' = NoResp /\ deploy_resp' = NoResp
    /\ UNCHANGED <<arg, fs>>

\* BlazeeModel.rename up to the response of the PATCH.
rename ==
    /\ Begin("rename", 0)
    /\ handle # NoHandle
    /\ IF _check_deleted(handle).raised
       THEN Refused
       ELSE \E name \in Names : \E r \in SrvRename(srv, handle.id, name) :
              LET res == _api_call(r.resp) IN
              /\ log' = <<Request("PATCH", "/models/{id}", handle.id, r.resp.status)>>
              /\ srv' = r.srv
              /\ result' = NoResult
              /\ IF res.raised THEN End(Raise(res.exc)) ELSE Continue("refresh")
              /\ UNCHANGED handle
    /\ model' = NoHandle /\ resp' = NoResp /\ deploy_resp' = NoResp
    /\ UNCHANGED <<arg, fs>>

\* BlazeeModel._refresh, the last step of rename, of _upload_version and of
\* ModelVersion.make_default.
_refresh ==
    /\ pc = "refresh"
    /\ \E r \in SrvGetModel(srv, handle.id) :
         LET res == _api_call(r.resp) IN
         /\ log' = Append(log, Request("GET", "/models/{id}", handle.id, r.resp.status))
         /\ srv' = r.srv
         /\ IF res.raised
            THEN End(Raise(res.exc)) /\ UNCHANGED <<handle, result>>
            ELSE /\ End(Return)
                 /\ handle' = _reset(handle._deleted, res.value)
                 /\ result' = IF op = "update" THEN ModelVersion(deploy_resp)
                              ELSE result
    /\ UNCHANGED <<op, before, model, resp, deploy_resp, tries, max_tries, polls>>
    /\ UNCHANGED <<arg, fs>>

\* BlazeeModel.versions from the response on.
versions(r) ==
    LET res == _api_call(r) IN
    IF res.raised THEN res
    ELSE Returned([i \in DOMAIN res.value |-> ModelVersion(res.value[i])])

\* BlazeeModel.versions called by the caller.
Versions ==
    /\ Begin("versions", 0)
    /\ handle # NoHandle
    /\ IF _check_deleted(handle).raised
       THEN Refused
       ELSE \E r \in SrvVersions(srv, handle.id) :
              LET res == versions(r.resp) IN
              /\ log' = <<Request("GET", "/models/{id}/versions", handle.id, r.resp.status)>>
              /\ srv' = r.srv
              /\ IF res.raised
                 THEN End(Raise(res.exc)) /\ result' = NoResult
                 ELSE End(Return) /\ result' = res.value
              /\ UNCHANGED handle
    /\ model' = NoHandle /\ resp' = NoResp /\ deploy_resp' = NoResp
    /\ UNCHANGED <<arg, fs>>

\* A scan that keeps the last version whose id or name is name_or_id.
LastMatch(vs, name_or_id) ==
    LET hits == { i \in DOMAIN vs : name_or_id \in {vs[i].id, vs[i].name} }
    IN IF hits = {} THEN 0
       ELSE CHOOSE i \in hits : \A j \in hits : i >= j

\* The scan of BlazeeModel.get_version: the index of the first version whose
\* id or name is name_or_id, 0 when there is none.
FirstMatch(vs, name_or_id) ==
    LET hits == { i \in DOMAIN vs : name_or_id \in {vs[i].id, vs[i].name} }
    IN IF hits = {} THEN 0
       ELSE CHOOSE i \in hits : \A j \in hits : i <= j

\* BlazeeModel.get_version, from the list that versions() returned: the
\* version the loop returns, or the ValueError after the loop.
get_version_scan(vs, name_or_id) ==
    LET hit == FirstMatch(vs, name_or_id) IN
    IF hit = 0
    THEN Raised(Exc("ValueError", <<"No version with ID or name", name_or_id>>))
    ELSE Returned(vs[hit])

\* BlazeeModel.get_version
get_version ==
    /\ Begin("get_version", 0)
    /\ handle # NoHandle
    /\ IF _check_deleted(handle).raised
       THEN Refused
       ELSE \E name_or_id \in {"1", "2", "v1", "v2", "v9"} :
            \E r \in SrvVersions(srv, handle.id) :
              LET res == versions(r.resp)
                  hit == get_version_scan(res.value, name_or_id)
              IN
              /\ log' = <<Request("GET", "/models/{id}/versions", handle.id, r.resp.status)>>
              /\ srv' = r.srv
              /\ IF res.raised
                 THEN End(Raise(res.exc)) /\ result' = NoResult
                 ELSE IF hit.raised
                 THEN End(Raise(hit.exc)) /\ result' = NoResult
                 ELSE End(Return) /\ result' = hit.value
              /\ UNCHANGED handle
    /\ model' = NoHandle /\ resp' = NoResp /\ deploy_resp' = NoResp
    /\ UNCHANGED <<arg, fs>>

\* BlazeeModel.predict
predict ==
    /\ Begin("predict", 0)
    /\ handle # NoHandle
    /\ IF _check_deleted(handle).raised
       THEN Refused
       ELSE \E r \in SrvPredict(srv, handle.id) :
              LET res == _api_call(r.resp) IN
              /\ log' = <<Request("POST", "/models/{id}/predict", handle.id, r.resp.status)>>
              /\ srv' = r.srv
              /\ IF res.raised
                 THEN End(Raise(res.exc)) /\ result' = NoResult
                 ELSE End(Return) /\ result' = Prediction(res.value)
              /\ UNCHANGED handle
    /\ model' = NoHandle /\ resp' = NoResp /\ deploy_resp' = NoResp
    /\ UNCHANGED <<arg, fs>>

\* BlazeeModel.predict_batch
predict_batch ==
    /\ Begin("predict_batch", 0)
    /\ handle # NoHandle
    /\ IF _check_deleted(handle).raised
       THEN Refused
       ELSE \E r \in SrvPredictBatch(srv, handle.id) :
              LET res == _api_call(r.resp) IN
              /\ log' = <<Request("POST", "/models/{id}/predict_batch", handle.id, r.resp.status)>>
              /\ srv' = r.srv
              /\ IF res.raised
                 THEN End(Raise(res.exc)) /\ result' = NoResult
                 ELSE /\ End(Return)
                      /\ result' = Predictions(res.value)
              /\ UNCHANGED handle
    /\ model' = NoHandle /\ resp' = NoResp /\ deploy_resp' = NoResp
    /\ UNCHANGED <<arg, fs>>

\* ------------------------------------------- serialization, update
\* An estimator as _serialize_model sees it: whether it is a BaseEstimator,
\* the module of its class, the modules of its steps when it is a Pipeline,
\* and what model.predict([0]) does.
Estimator(base, module, pipeline, steps, probe) ==
    [is_estimator |-> base, module |-> module, is_pipeline |-> pipeline,
     steps |-> steps, probe |-> probe]

Estimators ==
    { Estimator(TRUE,  "sklearn.", FALSE, <<>>, "ok"),
      Estimator(TRUE,  "sklearn.", FALSE, <<>>, "NotFittedError"),
      Estimator(TRUE,  "sklearn.", TRUE,  <<"sklearn.", "custom">>, "ok"),
      Estimator(TRUE,  "custom",   FALSE, <<>>, "ok"),
      Estimator(FALSE, "custom",   FALSE, <<>>, "ok") }

_is_sklearn(m) == m.is_estimator

\* A variant of startswith_sklearn that takes every module for one of sklearn.
startswith_any(module) == module \in {"sklearn.", "custom"}

startswith_sklearn(module) == module = "sklearn."

\* model._serialize_model, its tests of the type of the model: they raise
\* TypeError or let the function go on.
_serialize_check(m) ==
    IF _is_sklearn(m) THEN
        IF ~startswith_sklearn(m.module)
        THEN Raised(Exc("TypeError", <<"Model of type is not supported">>))
        ELSE IF m.is_pipeline
                /\ \E i \in DOMAIN m.steps : ~startswith_sklearn(m.steps[i])
        THEN Raised(Exc("TypeError", <<"Pipeline contains step which is not supported">>))
        ELSE Returned(<<>>)
    ELSE Raised(Exc("TypeError", <<"Model Type not supported">>))

\* A variant of check_fitted that catches every exception of the probe.
check_fitted_never(m) == Returned(<<>>)

\* The try block around model.predict([0]), in _serialize_model and in
\* serialize_sklearn: NotFittedError becomes AttributeError, and any other
\* exception of the probe is caught and dropped.
check_fitted(m) ==
    IF m.probe = "NotFittedError"
    THEN Raised(Exc("AttributeError", <<"This model hasn't been trained yet">>))
    ELSE Returned(<<>>)

\* model._serialize_model
_serialize_model(m) ==
    LET checked == _serialize_check(m)
        fitted  == check_fitted(m)
    IN IF checked.raised THEN checked
       ELSE IF fitted.raised THEN fitted
       ELSE Returned(<<"sklearn", "model.pickle">>)

\* model._get_model_metadata
_get_model_metadata(m) ==
    IF _is_sklearn(m)
    THEN Returned([lib_versions |-> "scikit-learn"])
    ELSE Raised(Exc("TypeError", <<"Model Type not supported">>))

\* BlazeeModel.update, and _upload_version up to the response of
\* POST /models/{id}/versions.  The argument `default` is not read; arg
\* keeps what the caller passed for it.
update ==
    /\ Begin("update", 0)
    /\ handle # NoHandle
    /\ \E default \in BOOLEAN :
         /\ arg' = [default |-> default]
         /\ IF _check_deleted(handle).raised
            THEN Refused /\ resp' = NoResp
            ELSE \E m \in Estimators :
                   LET content  == _serialize_model(m)
                       metadata == _get_model_metadata(m)
                   IN
                   IF content.raised \/ metadata.raised
                   THEN /\ End(Raise(IF content.raised THEN content.exc ELSE metadata.exc))
                        /\ log' = <<>>
                        /\ resp' = NoResp
                        /\ UNCHANGED srv
                   ELSE \E r \in SrvCreateVersion(srv, handle.id) :
                          LET res == _api_call(r.resp) IN
                          /\ log' = <<Request("POST", "/models/{id}/versions", handle.id, r.resp.status)>>
                          /\ srv' = r.srv
                          /\ IF res.raised
                             THEN End(Raise(res.exc)) /\ resp' = NoResp
                             ELSE Continue("version_upload") /\ resp' = res.value
    /\ model' = NoHandle /\ deploy_resp' = NoResp /\ result' = NoResult
    /\ UNCHANGED handle
    /\ UNCHANGED fs

\* BlazeeModel._upload_version: the upload to the pre-signed target.
_upload_version_upload ==
    /\ pc = "version_upload"
    /\ \E status \in UploadStatuses :
         LET upload_resp == raise_for_status(status) IN
         /\ log' = Append(log, Request("POST", "upload_data.url", handle.id, status))
         /\ srv' = SrvUpload(srv, status)
         /\ IF upload_resp.raised
            THEN End(Raise(upload_resp.exc))
            ELSE Continue("deploy")
    /\ UNCHANGED <<op, handle, before, model, resp, deploy_resp, tries, max_tries,
                   polls, result>>
    /\ UNCHANGED <<arg, fs>>

\* BlazeeModel._upload_version: the deploy trigger.
_upload_version_deploy ==
    /\ pc = "deploy"
    /\ LET version == ModelVersion(resp) IN
       \E r \in SrvDeploy(srv, handle.id, version.id) :
         LET res == _api_call(r.resp) IN
         /\ log' = Append(log, Request("PATCH",
                              "/models/{id}/versions/{vid}/deploy", handle.id, r.resp.status))
         /\ srv' = r.srv
         /\ IF res.raised
            THEN End(Raise(res.exc)) /\ UNCHANGED deploy_resp
            ELSE Continue("refresh") /\ deploy_resp' = res.value
    /\ UNCHANGED <<op, handle, before, model, resp, tries, max_tries, polls, result>>
    /\ UNCHANGED <<arg, fs>>

\* ------------------------------------------------------- ModelVersion
\* The version object the caller uses is the default_version of the handle:
\* _reset made it with the handle as its model.

\* ModelVersion.predict
ModelVersion_predict ==
    /\ Begin("version_predict", 0)
    /\ handle # NoHandle
    /\ handle.default_version # NoVersion
    /\ LET self == handle.default_version IN
       \E r \in SrvVersionPredict(srv, handle.id, self.id) :
         LET res == _api_call(r.resp) IN
         /\ log' = <<Request("POST", "/models/{id}/versions/{vid}/predict",
                             handle.id, r.resp.status)>>
         /\ srv' = r.srv
         /\ IF res.raised
            THEN End(Raise(res.exc)) /\ result' = NoResult
            ELSE End(Return) /\ result' = Prediction(res.value)
    /\ model' = NoHandle /\ resp' = NoResp /\ deploy_resp' = NoResp
    /\ UNCHANGED handle
    /\ UNCHANGED <<arg, fs>>

\* ModelVersion.predict_batch
ModelVersion_predict_batch ==
    /\ Begin("version_predict_batch", 0)
    /\ handle # NoHandle
    /\ handle.default_version # NoVersion
    /\ LET self == handle.default_version IN
       \E r \in SrvVersionPredictBatch(srv, handle.id, self.id) :
         LET res == _api_call(r.resp) IN
         /\ log' = <<Request("POST", "/models/{id}/versions/{vid}/predict_batch",
                             handle.id, r.resp.status)>>
         /\ srv' = r.srv
         /\ IF res.raised
            THEN End(Raise(res.exc)) /\ result' = NoResult
            ELSE End(Return) /\ result' = Predictions(res.value)
    /\ model' = NoHandle /\ resp' = NoResp /\ deploy_resp' = NoResp
    /\ UNCHANGED handle
    /\ UNCHANGED <<arg, fs>>

\* ModelVersion.make_default up to the response of the PATCH; the refresh of
\* the handle follows.
make_default ==
    /\ Begin("make_default", 0)
    /\ handle # NoHandle
    /\ handle.default_version # NoVersion
    /\ LET self == handle.default_version IN
       \E r \in SrvMakeDefault(srv, handle.id, self.id) :
         LET res == _api_call(r.resp) IN
         /\ log' = <<Request("PATCH", "/models/{id}", handle.id, r.resp.status)>>
         /\ srv' = r.srv
         /\ IF res.raised THEN End(Raise(res.exc)) ELSE Continue("refresh")
    /\ model' = NoHandle /\ resp' = NoResp /\ deploy_resp' = NoResp
    /\ result' = NoResult
    /\ UNCHANGED handle
    /\ UNCHANGED <<arg, fs>>

\* ------------------------------------------------------- specification
Next ==
    \/ CallerResumes
    \/ GetModel
    \/ deploy_sklearn
    \/ _create_model_upload
    \/ _wait_for_depoyment
    \/ _wait_for_depoyment_timeout
    \/ _create_model_rollback
    \/ delete
    \/ rename
    \/ _refresh
    \/ Versions
    \/ get_version
    \/ predict
    \/ predict_batch
    \/ update
    \/ _upload_version_upload
    \/ _upload_version_deploy
    \/ ModelVersion_predict
    \/ ModelVersion_predict_batch
    \/ make_default
    \/ SrvDeployed
    \/ SrvDeploymentError

Spec == Init /\ [][Next]_vars

\* ------------------------------------- Client._api_call on its own
\* The responses _api_call is given: every status with every body.
ApiStatuses == {200, 400, 403, 404, 500, 503}

DetailLists ==
    UNION { [1 .. n -> {"d1", "d2"}] : n \in 0 .. MaxDetails }

ApiBodies ==
    { InvalidJson,
      JsonObject([id |-> 1, name |-> "n1"]),
      JsonArray(<<[id |-> 1, name |-> "n1"]>>),
      JsonObject([error |-> [code |-> "c1", message |-> "m1"]]) }
    \cup { JsonObject([error |-> [code |-> c, message |-> "m1", details |-> d]]) :
             c \in {"c1", "c2"}, d \in DetailLists }

ApiInit ==
    /\ pc = "api"
    /\ op = "_api_call"
    /\ resp \in [status : ApiStatuses, body : ApiBodies]
    /\ handle = NoHandle
    /\ before = NoHandle
    /\ model = NoHandle
    /\ deploy_resp = NoResp
    /\ tries = 0
    /\ max_tries = 0
    /\ polls = <<>>
    /\ result = NoResult
    /\ log = <<>>
    /\ outcome = NoOutcome
    /\ srv = [exists |-> FALSE, id |-> 0, name |-> "n1", defver |-> 0,
              vers |-> <<"created">>, clock |-> 0, created |-> 0, upd |-> 0]
    /\ arg = NoArg
    /\ fs = NoFiles

\* Client._api_call is given the response resp.
ApiCall ==
    /\ pc = "api"
    /\ LET res == _api_call(resp) IN
       /\ pc' = "api_done"
       /\ outcome' = IF res.raised THEN Raise(res.exc) ELSE Return
       /\ result' = res.value
    /\ UNCHANGED <<op, handle, before, model, resp, deploy_resp, tries,
                   max_tries, polls, log, srv, arg, fs>>

SpecApi == ApiInit /\ [][ApiCall]_vars

\* ---------------------------------------------------------------------
\* get_version on its own: the scan applied to a list of versions and a
\* name or id drawn from small sets. A version's name may be the id of
\* another version, and two versions may have the same name, so that more
\* than one version of a list can match.

\* The longest list of versions.
MaxListing == 2

VersionLabels == {"v1", "v2", "1", "2"}

Listed(i, name) ==
    [id               |-> ToString(i),
     name             |-> name,
     type             |-> "sklearn",
     meta             |-> "meta",
     deployed         |-> TRUE,
     deployment_error |-> FALSE,
     created_at       |-> [iso |-> 0],
     updated_at       |-> [iso |-> 0]]

Listings ==
    UNION { { [i \in 1 .. n |-> Listed(i, names[i])] :
                names \in [1 .. n -> VersionLabels] } : n \in 0 .. MaxListing }

\* Every variable but pc, op, resp and arg, at rest.
AtRest ==
    /\ handle = NoHandle
    /\ before = NoHandle
    /\ model = NoHandle
    /\ deploy_resp = NoResp
    /\ tries = 0
    /\ max_tries = 0
    /\ polls = <<>>
    /\ result = NoResult
    /\ log = <<>>
    /\ outcome = NoOutcome
    /\ srv = [exists |-> FALSE, id |-> 0, name |-> "n1", defver |-> 0,
              vers |-> <<"created">>, clock |-> 0, created |-> 0, upd |-> 0]
    /\ fs = NoFiles

ScanInit ==
    /\ pc = "scan"
    /\ op = "get_version"
    /\ resp \in { [status |-> 200, body |-> JsonArray(l)] : l \in Listings }
    /\ arg \in VersionLabels \cup {"v9"}
    /\ AtRest

\* BlazeeModel.get_version, given the response to GET /models/{id}/versions.
GetVersionScan ==
    /\ pc = "scan"
    /\ LET vs  == versions(resp)
           res == IF vs.raised THEN vs ELSE get_version_scan(vs.value, arg)
       IN
       /\ pc' = "scan_done"
       /\ outcome' = IF res.raised THEN Raise(res.exc) ELSE Return
       /\ result' = IF res.raised THEN NoResult ELSE res.value
    /\ UNCHANGED <<op, handle, before, model, resp, deploy_resp, tries,
                   max_tries, polls, log, srv, arg, fs>>

SpecGetVersion == ScanInit /\ [][GetVersionScan]_vars

\* ---------------------------------------------------------------------
\* predict_batch on its own: the list built from a response to
\* POST /models/{id}/predict_batch drawn from small sets. An element has a
\* prediction and may have a probas field, whose value is a list of
\* probabilities or the JSON null, which the parser reads as None.

\* The longest batch.
MaxBatch == 3

BatchElements ==
    { [prediction |-> p] : p \in {0, 1} } \cup
    { [prediction |-> p, probas |-> q] : p \in {0, 1}, q \in {SomeProbas, None} }

Batches ==
    UNION { [1 .. n -> BatchElements] : n \in 0 .. MaxBatch }

BatchInit ==
    /\ pc = "batch"
    /\ op = "predict_batch"
    /\ resp \in { [status |-> 200, body |-> JsonArray(b)] : b \in Batches }
    /\ arg = NoArg
    /\ AtRest

\* BlazeeModel.predict_batch, given the response to its request.
PredictBatchBuild ==
    /\ pc = "batch"
    /\ LET res == _api_call(resp) IN
       /\ pc' = "batch_done"
       /\ outcome' = IF res.raised THEN Raise(res.exc) ELSE Return
       /\ result' = IF res.raised THEN NoResult ELSE Predictions(res.value)
    /\ UNCHANGED <<op, handle, before, model, resp, deploy_resp, tries,
                   max_tries, polls, log, srv, arg, fs>>

SpecBatch == BatchInit /\ [][PredictBatchBuild]_vars

\* ---------------------------------------------------------------------
\* Serialization on its own: model._serialize_model and
\* sklearn_utils.serialize_sklearn, step by step, applied to a model drawn
\* from a small set; serialize_sklearn is given estimators only. log holds
\* the calls made on the way: the probe model.predict([0]) and
\* pickle.dumps(model).

\* The longest pipeline.
MaxSteps == 2

Modules == {"sklearn.", "custom"}

\* What model.predict([0]) does: it returns, or raises NotFittedError or
\* another exception (ValueError for an input of the wrong shape,
\* AttributeError for an object without predict).
ProbeOutcomes == {"ok", "NotFittedError", "ValueError"}

StepLists == UNION { [1 .. n -> Modules] : n \in 1 .. MaxSteps }

AllEstimators ==
    Estimators
    \cup { Estimator(TRUE, mod, FALSE, <<>>, p) :
              mod \in Modules, p \in ProbeOutcomes }
    \cup { Estimator(TRUE, mod, TRUE, steps, p) :
              mod \in Modules, steps \in StepLists, p \in ProbeOutcomes }
    \cup { Estimator(FALSE, "custom", FALSE, <<>>, "AttributeError") }

SerializeInit ==
    /\ op \in {"_serialize_model", "serialize_sklearn"}
    /\ pc = IF op = "_serialize_model" THEN "serialize" ELSE "probe"
    /\ arg \in AllEstimators
    /\ op = "serialize_sklearn" => arg.is_estimator
    /\ resp = NoResp
    /\ AtRest

SerializeEnd(o) ==
    /\ pc' = "serialize_done"
    /\ outcome' = o

SerializeFrame ==
    UNCHANGED <<op, handle, before, model, resp, deploy_resp, tries,
                max_tries, polls, srv, arg, fs>>

\* model._serialize_model: the tests of the type of the model.
SerializeCheck ==
    /\ pc = "serialize"
    /\ LET checked == _serialize_check(arg) IN
       IF checked.raised
       THEN SerializeEnd(Raise(checked.exc))
       ELSE pc' = "probe" /\ UNCHANGED outcome
    /\ UNCHANGED <<log, result>>
    /\ SerializeFrame

\* _serialize_model and serialize_sklearn: the probe of the fitted check.
SerializeProbe ==
    /\ pc = "probe"
    /\ log' = Append(log, "model.predict")
    /\ LET fitted == check_fitted(arg) IN
       IF fitted.raised
       THEN SerializeEnd(Raise(fitted.exc))
       ELSE pc' = "pickle" /\ UNCHANGED outcome
    /\ UNCHANGED result
    /\ SerializeFrame

\* sklearn_utils._get_model_metadata without files to include.
sklearn_get_model_metadata(m) ==
    IF m.is_estimator
    THEN Returned([lib_versions |-> "scikit-learn", include_files |-> None])
    ELSE Raised(Exc("ValueError", <<"Model of type not supported">>))

\* pickle.dumps and what follows it: the zip archive of _serialize_model,
\* the files and the metadata of serialize_sklearn.
SerializePickle ==
    /\ pc = "pickle"
    /\ log' = Append(log, "pickle.dumps")
    /\ IF op = "_serialize_model"
       THEN /\ SerializeEnd(Return)
            /\ result' = <<"sklearn", "model.pickle">>
       ELSE LET meta == sklearn_get_model_metadata(arg) IN
            IF meta.raised
            THEN SerializeEnd(Raise(meta.exc)) /\ UNCHANGED result
            ELSE /\ SerializeEnd(Return)
                 /\ result' = [type  |-> "sklearn",
                               meta  |-> meta.value,
                               files |-> <<"model.pickle">>]
    /\ SerializeFrame

SpecSerialize ==
    /\ SerializeInit
    /\ [][
            \/ SerializeCheck
            \/ SerializeProbe
            \/ SerializePickle]_vars

\* ---------------------------------------------------------------------
\* The adapters that export through a file of the working directory:
\* serialize_keras, serialize_lightgbm and serialize_xgboost, step by step.
\* fs maps a path to what the file holds, "absent" when there is no such
\* file. The save of the framework may fail before or after it created the
\* file, and the read-back may fail. log holds the file operations done.
DiskAdapters == {"serialize_keras", "serialize_lightgbm", "serialize_xgboost"}

\* tmp_file of the three adapters
tmp_file(adapter) == IF adapter = "serialize_keras" THEN "tmp.h5" ELSE "tmp.txt"

\* The name of the file in the serialized model.
model_file(adapter) == IF adapter = "serialize_keras" THEN "model.h5" ELSE "model.txt"

Paths == {"tmp.h5", "tmp.txt", "a.py"}

Exists(f, path) == path \in DOMAIN f /\ f[path] # "absent"

\* The working directory before the call: a.py is there, and a file with
\* the name of a temporary file may be there already.
WorkingDirs ==
    { f \in [Paths -> {"absent", "stale", "source"}] :
        /\ f["a.py"] = "source"
        /\ f["tmp.h5"] # "source" /\ f["tmp.txt"] # "source" }

IncludeFiles == { <<>>, <<"a.py">>, <<"a.py", "missing.py">> }

TempInit ==
    /\ pc = "save"
    /\ op \in DiskAdapters
    /\ arg \in [include_files : IncludeFiles]
    /\ fs \in WorkingDirs
    /\ handle = NoHandle
    /\ before = NoHandle
    /\ model = NoHandle
    /\ resp = NoResp
    /\ deploy_resp = NoResp
    /\ tries = 0
    /\ max_tries = 0
    /\ polls = <<>>
    /\ result = NoResult
    /\ log = <<>>
    /\ outcome = NoOutcome
    /\ srv = [exists |-> FALSE, id |-> 0, name |-> "n1", defver |-> 0,
              vers |-> <<"created">>, clock |-> 0, created |-> 0, upd |-> 0]

TempFrame ==
    UNCHANGED <<op, handle, before, model, resp, deploy_resp, tries,
                max_tries, polls, srv, arg>>

\* A variant of os_remove that deletes nothing.
os_remove_nothing(f, path) == f

\* The directory after try: os.remove(path) except OSError: pass. The call
\* raises when there is no such file, and the exception is dropped.
os_remove(f, path) == [f EXCEPT ![path] = "absent"]

\* model.save(tmp_file) / model.save_model(tmp_file): the file is written,
\* or the call raises, with or without a file left behind.
TempSave ==
    /\ pc = "save"
    /\ \E saved \in {"written", "partial", "nothing"} :
         /\ fs' = IF saved = "nothing" THEN fs
                  ELSE [fs EXCEPT ![tmp_file(op)] = saved]
         /\ IF saved = "written"
            THEN /\ pc' = "read"
                 /\ log' = Append(log, "save")
                 /\ UNCHANGED outcome
            ELSE /\ pc' = "finally"
                 /\ log' = Append(log, "save failed, " \o saved \o " left")
                 /\ outcome' = Raise(Exc("Exception", <<"save">>))
    /\ UNCHANGED result
    /\ TempFrame

\* with open(tmp_file, 'rb') as f: f.read()
TempRead ==
    /\ pc = "read"
    /\ pc' = "finally"
    /\ \E readable \in BOOLEAN :
         IF readable /\ Exists(fs, tmp_file(op))
         THEN /\ result' = [buffer |-> fs[tmp_file(op)]]
              /\ log' = Append(log, "read")
              /\ UNCHANGED outcome
         ELSE /\ outcome' = Raise(Exc("OSError", <<"open">>))
              /\ log' = Append(log, "read failed")
              /\ UNCHANGED result
    /\ UNCHANGED fs
    /\ TempFrame

\* The finally block, then the exception in flight if there is one.
TempFinally ==
    /\ pc = "finally"
    /\ fs' = os_remove(fs, tmp_file(op))
    /\ log' = Append(log, IF Exists(fs, tmp_file(op))
                          THEN "remove" ELSE "remove failed")
    /\ pc' = IF outcome.status = "raised" THEN "temp_done" ELSE "build"
    /\ UNCHANGED <<outcome, result>>
    /\ TempFrame

\* add_file_deps and _get_model_metadata, then the SerializedModel.
\* get_file_content raises for a file that is not there, and
\* get_requirements may raise for a package that is not installed.
TempBuild ==
    /\ pc = "build"
    /\ pc' = "temp_done"
    /\ \E installed \in BOOLEAN :
         IF \E i \in DOMAIN arg.include_files : ~ Exists(fs, arg.include_files[i])
         THEN /\ outcome' = Raise(Exc("FileNotFoundError", <<>>))
              /\ result' = NoResult
         ELSE IF ~ installed
         THEN /\ outcome' = Raise(Exc("DistributionNotFound", <<>>))
              /\ result' = NoResult
         ELSE /\ outcome' = Return
              /\ result' = [type  |-> op,
                            meta  |-> [include_files |-> arg.include_files],
                            files |-> <<model_file(op)>> \o arg.include_files,
                            content |-> result.buffer]
    /\ UNCHANGED <<fs, log>>
    /\ TempFrame

SpecTemp ==
    /\ TempInit
    /\ [][
            \/ TempSave
            \/ TempRead
            \/ TempFinally
            \/ TempBuild]_vars

\* ---------------------------------------------------------------------
\* Two calls of the disk adapters running at the same time in one working
\* directory, their file operations interleaved. pc, op, outcome and result
\* hold one value for each call; a file holds the name of the call that
\* wrote it; log holds the file operations, each with the call that did it
\* and what the file held just before. The calls include no files.
Procs == {"p1", "p2"}

FileOp(p, act, found) == [proc |-> p, act |-> act, found |-> found]

ConcInit ==
    /\ pc = [p \in Procs |-> "save"]
    /\ op \in [Procs -> DiskAdapters]
    /\ fs = [path \in {"tmp.h5", "tmp.txt"} |-> "absent"]
    /\ result = [p \in Procs |-> NoResult]
    /\ outcome = [p \in Procs |-> NoOutcome]
    /\ log = <<>>
    /\ arg = NoArg
    /\ handle = NoHandle
    /\ before = NoHandle
    /\ model = NoHandle
    /\ resp = NoResp
    /\ deploy_resp = NoResp
    /\ tries = 0
    /\ max_tries = 0
    /\ polls = <<>>
    /\ srv = [exists |-> FALSE, id |-> 0, name |-> "n1", defver |-> 0,
              vers |-> <<"created">>, clock |-> 0, created |-> 0, upd |-> 0]

\* model.save(tmp_file) / model.save_model(tmp_file) of call p: the file is
\* written over whatever is there, or the call raises and writes nothing.
ConcSave(p) ==
    /\ pc[p] = "save"
    /\ \E saved \in BOOLEAN :
         IF saved
         THEN /\ fs' = [fs EXCEPT ![tmp_file(op[p])] = p]
              /\ log' = Append(log, FileOp(p, "save", fs[tmp_file(op[p])]))
              /\ pc' = [pc EXCEPT ![p] = "read"]
              /\ UNCHANGED outcome
         ELSE /\ log' = Append(log, FileOp(p, "save failed", fs[tmp_file(op[p])]))
              /\ pc' = [pc EXCEPT ![p] = "finally"]
              /\ outcome' = [outcome EXCEPT ![p] = Raise(Exc("Exception", <<"save">>))]
              /\ UNCHANGED fs
    /\ UNCHANGED result
    /\ TempFrame

\* with open(tmp_file, 'rb') as f: f.read() of call p
ConcRead(p) ==
    /\ pc[p] = "read"
    /\ pc' = [pc EXCEPT ![p] = "finally"]
    /\ \E readable \in BOOLEAN :
         IF readable /\ Exists(fs, tmp_file(op[p]))
         THEN /\ result' = [result EXCEPT ![p] = [buffer |-> fs[tmp_file(op[p])]]]
              /\ log' = Append(log, FileOp(p, "read", fs[tmp_file(op[p])]))
              /\ UNCHANGED outcome
         ELSE /\ outcome' = [outcome EXCEPT ![p] = Raise(Exc("OSError", <<"open">>))]
              /\ log' = Append(log, FileOp(p, "read failed", fs[tmp_file(op[p])]))
              /\ UNCHANGED result
    /\ UNCHANGED fs
    /\ TempFrame

\* The finally block of call p, then the exception in flight if there is
\* one.
ConcFinally(p) ==
    /\ pc[p] = "finally"
    /\ fs' = os_remove(fs, tmp_file(op[p]))
    /\ log' = Append(log, FileOp(p, IF Exists(fs, tmp_file(op[p]))
                                    THEN "remove" ELSE "remove failed",
                                 fs[tmp_file(op[p])]))
    /\ pc' = [pc EXCEPT ![p] = IF outcome[p].status = "raised"
                               THEN "temp_done" ELSE "build"]
    /\ UNCHANGED <<outcome, result>>
    /\ TempFrame

\* The SerializedModel of call p.
ConcBuild(p) ==
    /\ pc[p] = "build"
    /\ pc' = [pc EXCEPT ![p] = "temp_done"]
    /\ outcome' = [outcome EXCEPT ![p] = Return]
    /\ result' = [result EXCEPT ![p] =
                    [type    |-> op[p],
                     meta    |-> [include_files |-> None],
                     files   |-> <<model_file(op[p])>>,
                     content |-> result[p].buffer]]
    /\ UNCHANGED <<fs, log>>
    /\ TempFrame

SpecConcurrent ==
    /\ ConcInit
    /\ [][
            \/ \E p \in Procs : ConcSave(p)
            \/ \E p \in Procs : ConcRead(p)
            \/ \E p \in Procs : ConcFinally(p)
            \/ \E p \in Procs : ConcBuild(p)]_vars

\* ---------------------------------------------------------------------
\* Dependency resolution on its own: utils.get_requirements and
\* utils.get_installed_versions applied to a list of packages, over an
\* environment drawn from small sets. An environment says which packages
\* are installed and which packages each installed one requires; the
\* requirements may form cycles. A dict is a function from names to
\* versions.

\* The longest list of requirements of a package.
MaxRequires == 2

PackageNames == {"a", "b", "c"}

Range(s) == { s[i] : i \in DOMAIN s }

\* The lists of package names of at most n names, without repetition.
NameLists(n) ==
    { s \in UNION { [1 .. k -> PackageNames] : k \in 0 .. n } :
        \A i, j \in DOMAIN s : s[i] = s[j] => i = j }

\* dist.version of an installed package
VersionOf(package) == package \o "==1.0"

Environments ==
    { env \in [installed : SUBSET PackageNames,
               requires  : [PackageNames -> NameLists(MaxRequires)]] :
        \A p \in PackageNames : p \notin env.installed => env.requires[p] = <<>> }

\* {**a, **b}
Merge(a, b) == b @@ a

\* What a call of get_installed_versions hands back: the dict it returns or
\* the exception it raises, and the list skip, which the calls share.
Visited(requirements, skip) ==
    [raised |-> FALSE, exc |-> NoExc, value |-> requirements, skip |-> skip]

VisitFailed(e, skip) ==
    [raised |-> TRUE, exc |-> e, value |-> <<>>, skip |-> skip]

\* A variant of get_distribution that finds every package, an unknown
\* version for one that is not installed.
get_distribution_any(env, package) ==
    IF package \in env.installed
    THEN Returned([version |-> VersionOf(package), requires |-> env.requires[package]])
    ELSE Returned([version |-> "unknown", requires |-> <<>>])

\* pkg_resources.get_distribution
get_distribution(env, package) ==
    IF package \in env.installed
    THEN Returned([version |-> VersionOf(package), requires |-> env.requires[package]])
    ELSE Raised(Exc("DistributionNotFound", <<package>>))

\* A variant of in_skip that also stops the traversal once two packages
\* have been expanded.
in_skip_or_deep(package, skip) == package \in Range(skip) \/ Len(skip) >= 2

\* package in skip
in_skip(package, skip) == package \in Range(skip)

\* A variant of own_requirement that leaves the package itself out.
own_requirement_none(package, version) == <<>>

\* requirements = {package: dist.version}
own_requirement(package, version) == package :> version

RECURSIVE get_installed_versions(_, _, _)
RECURSIVE requires_loop(_, _, _, _, _)

\* utils.get_installed_versions; skip is <<>> for skip=None.
get_installed_versions(env, package, skip) ==
    IF in_skip(package, skip) THEN Visited(<<>>, skip)
    ELSE LET skip1 == Append(skip, package)
             dist  == get_distribution(env, package)
         IN IF dist.raised THEN VisitFailed(dist.exc, skip1)
            ELSE requires_loop(env, dist.value.requires, 1,
                               own_requirement(package, dist.value.version), skip1)

\* The loop of get_installed_versions over dist.requires(), from its i-th
\* element on.
requires_loop(env, requires, i, requirements, skip) ==
    IF i > Len(requires) THEN Visited(requirements, skip)
    ELSE LET dep_reqs == get_installed_versions(env, requires[i], skip) IN
         IF dep_reqs.raised THEN dep_reqs
         ELSE requires_loop(env, requires, i + 1,
                            Merge(requirements, dep_reqs.value), dep_reqs.skip)

RECURSIVE packages_loop(_, _, _, _, _)

\* The loop of get_requirements over packages, from its i-th element on;
\* traversals collects the list skip of each call it made.
packages_loop(env, packages, i, deps, traversals) ==
    IF i > Len(packages)
    THEN [raised |-> FALSE, exc |-> NoExc, value |-> deps, traversals |-> traversals]
    ELSE LET preqs == get_installed_versions(env, packages[i], <<>>) IN
         IF preqs.raised
         THEN [raised |-> TRUE, exc |-> preqs.exc, value |-> <<>>,
               traversals |-> Append(traversals, preqs.skip)]
         ELSE packages_loop(env, packages, i + 1, Merge(deps, preqs.value),
                            Append(traversals, preqs.skip))

\* utils.get_requirements
get_requirements(env, packages) ==
    packages_loop(env, packages, 1, <<>>, <<>>)

\* The lists of packages given to get_requirements: one, two or three
\* packages. Environments holds every environment over the three names, so
\* every other list of distinct names is one of these up to the names.
PackageLists == { SubSeq(<<"a", "b", "c">>, 1, k) : k \in 1 .. 3 }

ResolveInit ==
    /\ pc = "resolve"
    /\ op = "get_requirements"
    /\ arg \in [env : Environments, packages : PackageLists]
    /\ resp = NoResp
    /\ AtRest

\* The orders in which the keys of a dict can be listed.
KeyOrders(dict) ==
    { s \in [1 .. Cardinality(DOMAIN dict) -> DOMAIN dict] :
        \A i, j \in DOMAIN s : s[i] = s[j] => i = j }

\* get_requirements(packages); log keeps the list skip of each traversal.
Resolve ==
    /\ pc = "resolve"
    /\ LET res == get_requirements(arg.env, arg.packages) IN
       /\ pc' = "resolve_done"
       /\ outcome' = IF res.raised THEN Raise(res.exc) ELSE Return
       /\ result' = IF res.raised THEN NoResult ELSE res.value
       /\ log' = res.traversals
    /\ UNCHANGED <<op, handle, before, model, resp, deploy_resp, tries,
                   max_tries, polls, srv, arg, fs>>

\* get_requirements called again, with the keys of the dict it returned,
\* in any order; resp keeps the dict of this second call.
ResolveAgain ==
    /\ pc = "resolve_done"
    /\ outcome = Return
    /\ \E keys \in KeyOrders(result) :
         LET res == get_requirements(arg.env, keys) IN
         /\ pc' = "again_done"
         /\ resp' = [raised |-> res.raised, exc |-> res.exc, value |-> res.value]
    /\ UNCHANGED <<op, handle, before, model, deploy_resp, tries, max_tries,
                   polls, result, log, outcome, srv, arg, fs>>

SpecResolve ==
    /\ ResolveInit
    /\ [][
            \/ Resolve
            \/ ResolveAgain]_vars

\* ---------------------------------------------------------------------
\* utils.generate_zip on its own, applied to a list of (file_name, content)
\* pairs drawn from small sets; two pairs of a list may have the same
\* file_name. An archive is what zipfile.ZipFile keeps of it: the list of
\* its entries in the order they were written, and for each name the entry
\* that name stands for, which is the last one written under it.

\* The longest list of files.
MaxFiles == 3

\* The lists of files: the names are the model file and a file under deps/,
\* the contents two byte strings.
FileLists ==
    UNION { [1 .. n -> {"model.pickle", "deps/a.py"} \X {"b1", "b2"}] :
              n \in 0 .. MaxFiles }

\* utils.generate_zip: for each pair, zinfo = zipfile.ZipInfo(file_name) with
\* read access, and zf.writestr(zinfo, content), which appends the entry and
\* makes the name stand for it.  A ZipInfo made by the caller has the method
\* ZIP_STORED, which the archive's ZIP_DEFLATED does not replace: the entry
\* holds the content as it is.
generate_zip(files) ==
    [filelist   |-> [i \in DOMAIN files |->
                       [filename      |-> files[i][1],
                        external_attr |-> "0o644 << 16",
                        compress_type |-> "ZIP_STORED",
                        content       |-> files[i][2]]],
     NameToInfo |-> [name \in { files[i][1] : i \in DOMAIN files } |->
                       CHOOSE i \in DOMAIN files :
                         /\ files[i][1] = name
                         /\ \A j \in DOMAIN files : files[j][1] = name => j <= i]]

\* The files a reader of the archive gets, by path: for each name, the
\* content of the entry the name stands for.
Unarchive(archive) ==
    [name \in DOMAIN archive.NameToInfo |->
        archive.filelist[archive.NameToInfo[name]].content]

ZipInit ==
    /\ pc = "zip"
    /\ op = "generate_zip"
    /\ arg \in FileLists
    /\ resp = NoResp
    /\ AtRest

\* utils.generate_zip(files)
GenerateZip ==
    /\ pc = "zip"
    /\ pc' = "zip_done"
    /\ result' = generate_zip(arg)
    /\ outcome' = Return
    /\ UNCHANGED <<op, handle, before, model, resp, deploy_resp, tries,
                   max_tries, polls, log, srv, arg, fs>>

\* The archive read back by path; resp keeps the files read.
ReadArchive ==
    /\ pc = "zip_done"
    /\ pc' = "unzip_done"
    /\ resp' = Unarchive(result)
    /\ UNCHANGED <<op, handle, before, model, deploy_resp, tries, max_tries,
                   polls, result, log, outcome, srv, arg, fs>>

SpecZip ==
    /\ ZipInit
    /\ [][
            \/ GenerateZip
            \/ ReadArchive]_vars

\* ---------------------------------------------------------------------
\* The detection predicates of the adapters on their own.  A model object
\* is the set of classes it is an instance of, as the libraries define
\* them, and the libraries it needs; a predicate imports a class of its
\* library, which fails when the library is not installed, and tests the
\* object against it.

\* The objects of the supported frameworks, the scikit-learn-style wrappers
\* of keras, xgboost and lightgbm among them.
SupportedObjects ==
    { [name |-> "LogisticRegression", needs |-> {"sklearn"},
       classes |-> {"sklearn.base.BaseEstimator"}],
      [name |-> "Pipeline", needs |-> {"sklearn"},
       classes |-> {"sklearn.base.BaseEstimator"}],
      [name |-> "KerasClassifier", needs |-> {"keras"},
       classes |-> {"keras.wrappers.scikit_learn.BaseWrapper"}],
      [name |-> "Sequential", needs |-> {"keras"},
       classes |-> {"keras.models.Model"}],
      [name |-> "torch.nn.Linear", needs |-> {"torch"},
       classes |-> {"torch.nn.Module"}],
      [name |-> "lightgbm.Booster", needs |-> {"lightgbm"},
       classes |-> {"lightgbm.basic.Booster"}],
      [name |-> "LGBMClassifier", needs |-> {"lightgbm", "sklearn"},
       classes |-> {"sklearn.base.BaseEstimator"}],
      [name |-> "xgboost.Booster", needs |-> {"xgboost"},
       classes |-> {"xgboost.core.Booster"}],
      [name |-> "XGBClassifier", needs |-> {"xgboost", "sklearn"},
       classes |-> {"sklearn.base.BaseEstimator"}],
      [name |-> "Learner", needs |-> {"fastai", "torch"},
       classes |-> {"fastai.basic_train.Learner"}] }

\* The sets of installed libraries; fastai installs torch.
Installations ==
    { libs \in SUBSET {"sklearn", "keras", "torch", "lightgbm", "xgboost", "fastai"} :
        "fastai" \in libs => "torch" \in libs }

\* try: from <library> import <class>; return isinstance(model, <class>)
\* except: return False
isinstance_of(installed, m, library, class) ==
    IF library \in installed THEN class \in m.classes ELSE FALSE

\* A variant of is_keras that also takes the scikit-learn wrapper of keras.
is_keras_or_wrapper(installed, m) ==
    \/ isinstance_of(installed, m, "keras", "keras.models.Model")
    \/ isinstance_of(installed, m, "keras", "keras.wrappers.scikit_learn.BaseWrapper")

\* keras_utils.is_keras
is_keras(installed, m) ==
    isinstance_of(installed, m, "keras", "keras.models.Model")

\* sklearn_utils.is_sklearn
is_sklearn(installed, m) ==
    IF isinstance_of(installed, m, "sklearn", "sklearn.base.BaseEstimator")
    THEN TRUE
    ELSE IF isinstance_of(installed, m, "keras", "keras.wrappers.scikit_learn.BaseWrapper")
    THEN TRUE
    ELSE FALSE

\* pytorch_utils.is_pytorch
is_pytorch(installed, m) ==
    isinstance_of(installed, m, "torch", "torch.nn.Module")

\* lightgbm_utils.is_lightgbm
is_lightgbm(installed, m) ==
    isinstance_of(installed, m, "lightgbm", "lightgbm.basic.Booster")

\* xgboost_utils.is_xgboost
is_xgboost(installed, m) ==
    isinstance_of(installed, m, "xgboost", "xgboost.core.Booster")

\* fastai_utils.is_fastai
is_fastai(installed, m) ==
    isinstance_of(installed, m, "fastai", "fastai.basic_train.Learner")

\* An object exists where the libraries it needs are installed.
DetectInit ==
    /\ pc = "detect"
    /\ op = "detect"
    /\ arg \in { [model |-> m, installed |-> libs] :
                   m \in SupportedObjects \cup
                         {[name |-> "dict", needs |-> {}, classes |-> {}]},
                   libs \in Installations }
    /\ arg.model.needs \subseteq arg.installed
    /\ resp = NoResp
    /\ AtRest

\* Each predicate is applied to the object; result is the set of those that
\* claim it.
Detect ==
    /\ pc = "detect"
    /\ pc' = "detect_done"
    /\ result' =
         {p \in {"is_sklearn"} : is_sklearn(arg.installed, arg.model)} \cup
         {p \in {"is_keras"} : is_keras(arg.installed, arg.model)} \cup
         {p \in {"is_pytorch"} : is_pytorch(arg.installed, arg.model)} \cup
         {p \in {"is_lightgbm"} : is_lightgbm(arg.installed, arg.model)} \cup
         {p \in {"is_xgboost"} : is_xgboost(arg.installed, arg.model)} \cup
         {p \in {"is_fastai"} : is_fastai(arg.installed, arg.model)}
    /\ outcome' = Return
    /\ UNCHANGED <<op, handle, before, model, resp, deploy_resp, tries,
                   max_tries, polls, log, srv, arg, fs>>

SpecDetect == DetectInit /\ [][Detect]_vars

\* -------------------------------------------------------------- claims
IsCreate(e)  == e.method = "POST" /\ e.path \in {"/models", "/models/{id}/versions"}
IsUpload(e)  == e.path = "upload_data.url"
IsTrigger(e) == e.path = "/models/{id}/versions/{vid}/deploy"
IsFetch(e)   == e.method = "GET" /\ e.path = "/models/{id}"

Ready(p) == p.ok /\ p.uploaded
Quiet(p) == p.ok /\ ~p.uploaded /\ ~p.deployment_error

\* C1: when the service first reports the readiness flag true on status fetch
\* k (k within the retry budget), the polling loop has returned success after
\* exactly k fetches.
C1_PollingSuccess ==
    \A k \in DOMAIN polls :
        (k <= max_tries /\ Ready(polls[k]) /\ \A j \in 1 .. k - 1 : ~Ready(polls[j]))
        => (pc = "done" /\ outcome.status = "returned" /\ Len(polls) = k)

\* C2: when no status fetch reports the readiness flag or the error flag, the
\* deployment ends after exactly max_tries fetches with the timeout error.
C2_PollingTimeout ==
    (/\ pc = "done" /\ op = "deploy_sklearn" /\ model # NoHandle
     /\ max_tries >= 1
     /\ \A k \in DOMAIN polls : Quiet(polls[k]))
    => (/\ Len(polls) = max_tries
        /\ outcome.status = "raised"
        /\ outcome.exc.type = "TimeoutError")

\* C3: a status fetch that reports deployment_error=true is the last one, and
\* the deployment fails with a deployment error.
C3_FatalDeploymentError ==
    \A k \in DOMAIN polls :
        (polls[k].ok /\ polls[k].deployment_error)
        => (/\ pc = "done" /\ Len(polls) = k
            /\ outcome.status = "raised"
            /\ outcome.exc.type \in {"DeploymentError", "RuntimeError"})

\* C4: when the upload of a brand-new model fails, the client sends a DELETE
\* for the model it created, the error is raised, the caller holds no handle
\* to that model and the model is no longer on the service.
C4_FirstUploadFailure ==
    (/\ pc = "done" /\ op = "deploy_sklearn"
     /\ Len(log) >= 2 /\ IsUpload(log[2]) /\ log[2].status >= 400)
    => (/\ outcome.status = "raised"
        /\ \E i \in 3 .. Len(log) : log[i].method = "DELETE" /\ log[i].id = resp.id
        /\ ~Live(srv, resp.id)
        /\ handle.id # resp.id)

\* C5: when the upload inside update fails, the upload error is raised, the
\* upload is the last request of the operation (no deploy trigger, no DELETE,
\* no PATCH) and the handle's id, name, default_version and deleted flag are
\* what they were before the update.
C5_UpdateUploadFailure ==
    (/\ op = "update"
     /\ Len(log) >= 2 /\ IsUpload(log[2]) /\ log[2].status >= 400)
    => (/\ pc = "done"
        /\ outcome.status = "raised" /\ outcome.exc.type = "HTTPError"
        /\ Len(log) = 2
        /\ handle.id = before.id
        /\ handle.name = before.name
        /\ handle.default_version = before.default_version
        /\ handle._deleted = before._deleted)

C5_Witness ==
    /\ pc = "done" /\ op = "update"
    /\ Len(log) = 2 /\ IsUpload(log[2]) /\ log[2].status = 403
    /\ before.default_version # NoVersion

HandleOps ==
    {"rename", "versions", "get_version", "update", "predict",
     "predict_batch", "delete"}

\* C6: a delete() that returned has set the deleted flag, and every operation
\* begun on a handle whose flag is set ends at once with the deleted-handle
\* error, having sent no request.
C6_DeletedHandle ==
    /\ (pc = "done" /\ op = "delete" /\ outcome.status = "returned")
       => handle._deleted
    /\ (op \in HandleOps /\ before._deleted)
       => (pc = "done" /\ outcome = Raise(DeletedError) /\ log = <<>>)

C6_Witness ==
    /\ pc = "done" /\ op = "update"
    /\ before._deleted
    /\ outcome = Raise(DeletedError)

\* C7: in a deployment the upload follows a successful create, the deploy
\* trigger follows a successful upload, and every status fetch follows the
\* deploy trigger.
C7_ProtocolOrder ==
    op \in {"deploy_sklearn", "update"} =>
      \A i \in DOMAIN log :
        /\ IsUpload(log[i]) =>
             \E j \in 1 .. i - 1 : IsCreate(log[j]) /\ log[j].status = 200
        /\ IsTrigger(log[i]) =>
             \E j \in 1 .. i - 1 : IsUpload(log[j]) /\ log[j].status \in 200 .. 299
        /\ IsFetch(log[i]) =>
             \E j \in 1 .. i - 1 : IsTrigger(log[j])

\* C8: a deployment that returns has fetched the model after the new version
\* was deployed, and returns that version, deployed.
C8_DeployResult ==
    (pc = "done" /\ op \in {"deploy_sklearn", "update"} /\ outcome.status = "returned")
    => (/\ result # NoResult
        /\ result.id = resp.id
        /\ result.deployed
        /\ IsFetch(log[Len(log)]) /\ log[Len(log)].status = 200)

\* The kinds of the errors _api_call raises for the failure replies of the
\* JSON API.
ApiErrorKinds == { _api_call(r).exc.type : r \in FailReplies }

\* C9: an upload answered with a non-2xx status is the last request of the
\* deployment, which fails with an error whose kind is none of the kinds of
\* the JSON API's errors.
C9_UploadErrorKind ==
    \A i \in DOMAIN log :
        (IsUpload(log[i]) /\ log[i].status \notin 200 .. 299)
        => (/\ pc = "done" /\ i = Len(log)
            /\ outcome.status = "raised"
            /\ outcome.exc.type \notin ApiErrorKinds)

\* s occurs in t, in order.
RECURSIVE Embeds(_, _)
Embeds(s, t) ==
    IF s = <<>> THEN TRUE
    ELSE IF t = <<>> THEN FALSE
    ELSE IF Head(s) = Head(t) THEN Embeds(Tail(s), Tail(t))
    ELSE Embeds(s, Tail(t))

StructuredError(r) ==
    /\ HasKey(r.body, "error")
    /\ {"code", "message", "details"} \subseteq DOMAIN r.body.val.error

ApiErrorRaised ==
    LET error == resp.body.val.error IN
    /\ outcome.status = "raised"
    /\ outcome.exc.type = "HTTPError"
    /\ Embeds(<<error.code, error.message>> \o error.details, outcome.exc.msg)

\* C10 as stated: whatever the status, a response whose body has an error
\* field makes _api_call raise the error carrying the code, the message and
\* the details of the body, in order.
C10_AnyStatus ==
    (pc = "api_done" /\ StructuredError(resp)) => ApiErrorRaised

\* C10: a response whose status is below 500 and is not 403, and whose body
\* has an error field with code, message and details, makes _api_call raise
\* the error carrying the status, then the code, the message and the details
\* of the body, in order.
C10_ApiError ==
    (/\ pc = "api_done" /\ StructuredError(resp)
     /\ resp.status < 500 /\ resp.status # 403)
    => (ApiErrorRaised /\ Head(outcome.exc.msg) = ToString(resp.status))

C10_Witness ==
    /\ pc = "api_done" /\ StructuredError(resp)
    /\ resp.status = 200
    /\ Len(resp.body.val.error.details) >= 2
    /\ outcome.status = "raised"

\* ---------------------------------------------------------------------
\* C11: whenever the response status is 500 or above, _api_call fails with
\* the server error (the HTTPError that carries the status and the
\* server-error text), whatever the body is, also a body that is empty or
\* not JSON: the body is not parsed and no value is returned.
ServerError(status) == Exc("HTTPError", <<ToString(status), ServerErrorText>>)

C11_ServerError ==
    (pc = "api_done" /\ resp.status >= 500)
    => (outcome = Raise(ServerError(resp.status)) /\ result = <<>>)

C11_Witness ==
    /\ pc = "api_done" /\ resp.status = 503
    /\ resp.body = InvalidJson
    /\ outcome = Raise(ServerError(503))

\* ---------------------------------------------------------------------
\* C12: every call of _api_call that receives status 403, on whatever path
\* and with whatever method and body, fails with the authentication error
\* (the HTTPError that carries the invalid-key text), and the operation
\* that made the call ends with that error.
AuthenticationError == Exc("HTTPError", <<InvalidKeyText>>)

C12_AuthenticationError ==
    \A i \in DOMAIN log :
        (~ IsUpload(log[i]) /\ log[i].status = 403)
        => (/\ i = Len(log)
            /\ pc = "done"
            /\ outcome = Raise(AuthenticationError))

C12_Witness ==
    /\ pc = "done" /\ Len(log) >= 2
    /\ ~ IsUpload(log[Len(log)])
    /\ log[Len(log)].method # log[1].method
    /\ log[Len(log)].status = 403
    /\ outcome = Raise(AuthenticationError)

\* ---------------------------------------------------------------------
\* C13: when the first request of a deployment, the POST that creates the
\* model or the version, is answered with a server, authentication or API
\* error, the operation ends with that error and has sent no other request:
\* no upload, no deploy trigger, no poll and no DELETE.
CreateError(status) ==
    IF status >= 500 THEN {ServerError(status)}
    ELSE IF status = 403 THEN {AuthenticationError}
    ELSE {e \in {outcome.exc} : e.type = "HTTPError" /\ Head(e.msg) = ToString(status)}

C13_CreateStepFailure ==
    (/\ op \in {"deploy_sklearn", "update"}
     /\ log # <<>> /\ IsCreate(log[1]) /\ log[1].status >= 400)
    => (/\ pc = "done"
        /\ Len(log) = 1
        /\ outcome.status = "raised"
        /\ outcome.exc \in CreateError(log[1].status))

C13_Witness ==
    /\ pc = "done" /\ op = "deploy_sklearn"
    /\ Len(log) = 1 /\ IsCreate(log[1]) /\ log[1].status = 404
    /\ outcome.status = "raised"
    /\ ~ srv.exists

\* ---------------------------------------------------------------------
\* C14: get_model with an identifier that is not a well-formed UUID fails
\* with the malformed-identifier error and has sent no request; with a
\* well-formed identifier it sends exactly one request, the GET of
\* /models/{id} for that identifier.
MalformedIdentifierError == Exc("ValueError", <<"Malformed model ID">>)

C14_GetModel ==
    (pc = "done" /\ op = "get_model")
    => IF arg \in ModelIds
       THEN /\ Len(log) = 1 /\ IsFetch(log[1]) /\ log[1].id = arg
            /\ outcome # Raise(MalformedIdentifierError)
       ELSE /\ log = <<>>
            /\ outcome = Raise(MalformedIdentifierError)

C14_Witness ==
    /\ pc = "done" /\ op = "get_model"
    /\ arg = BadId
    /\ srv.exists
    /\ log = <<>>
    /\ outcome = Raise(MalformedIdentifierError)

\* ---------------------------------------------------------------------
\* C15: get_version(name_or_id) goes through the versions in the order the
\* service listed them and returns the first one whose id or name equals
\* name_or_id; when no version matches it fails with the
\* version-not-found error.
VersionNotFoundError(name_or_id) ==
    Exc("ValueError", <<"No version with ID or name", name_or_id>>)

Matches(v, name_or_id) == v.id = name_or_id \/ v.name = name_or_id

C15_GetVersion ==
    (pc = "scan_done")
    => LET listed == resp.body.val IN
       IF \E i \in DOMAIN listed : Matches(listed[i], arg)
       THEN /\ outcome = Return
            /\ \E i \in DOMAIN listed :
                 /\ Matches(listed[i], arg)
                 /\ \A j \in 1 .. i - 1 : ~ Matches(listed[j], arg)
                 /\ result = ModelVersion(listed[i])
       ELSE /\ outcome = Raise(VersionNotFoundError(arg))
            /\ result = NoResult

C15_Witness ==
    /\ pc = "scan_done"
    /\ Len(resp.body.val) = 2
    /\ resp.body.val[1].name = arg
    /\ resp.body.val[2].id = arg
    /\ outcome = Return
    /\ result = ModelVersion(resp.body.val[1])

\* ---------------------------------------------------------------------
\* C16: predict_batch returns one Prediction for each element of the
\* response, the i-th built from the i-th element, whatever the length of
\* the response, and a Prediction's probas is null exactly when the
\* element has no probas field.
HasProbas(element) == "probas" \in DOMAIN element

C16_ProbasNullIffAbsent ==
    (pc = "batch_done")
    => LET elements == resp.body.val IN
       /\ outcome = Return
       /\ Len(result) = Len(elements)
       /\ \A i \in DOMAIN elements :
            /\ result[i].prediction = elements[i].prediction
            /\ (result[i].probas = None <=> ~ HasProbas(elements[i]))

\* C16, amended: predict_batch returns one Prediction for each element of
\* the response, the i-th built from the i-th element, whatever the length
\* of the response; a Prediction's probas is the value of the element's
\* probas field when the element has one, a null value included, and null
\* when it has none.
C16_PredictBatch ==
    (pc = "batch_done")
    => LET elements == resp.body.val IN
       /\ outcome = Return
       /\ Len(result) = Len(elements)
       /\ \A i \in DOMAIN elements :
            /\ result[i].prediction = elements[i].prediction
            /\ HasProbas(elements[i]) => result[i].probas = elements[i].probas
            /\ ~ HasProbas(elements[i]) => result[i].probas = None

C16_Witness ==
    /\ pc = "batch_done"
    /\ Len(resp.body.val) = MaxBatch
    /\ resp.body.val[1] = [prediction |-> 0]
    /\ resp.body.val[2] = [prediction |-> 1, probas |-> SomeProbas]
    /\ resp.body.val[3] = [prediction |-> 1, probas |-> None]
    /\ result[1] = [prediction |-> 0, probas |-> None]
    /\ result[2] = [prediction |-> 1, probas |-> SomeProbas]
    /\ result[3] = [prediction |-> 1, probas |-> None]

\* ---------------------------------------------------------------------
\* C17: whenever the probe of the fitted check, model.predict on a trivial
\* input, raises the not-fitted signal, serialization fails with the
\* untrained-model error and produces no serialized model or archive.
UntrainedModelError ==
    Exc("AttributeError", <<"This model hasn't been trained yet">>)

ProbeRan == \E i \in DOMAIN log : log[i] = "model.predict"

Pickled == \E i \in DOMAIN log : log[i] = "pickle.dumps"

C17_UntrainedModel ==
    (pc # "probe" /\ ProbeRan /\ arg.probe = "NotFittedError")
    => (/\ pc = "serialize_done"
        /\ outcome = Raise(UntrainedModelError)
        /\ ~ Pickled
        /\ result = NoResult)

C17_Witness ==
    /\ pc = "serialize_done" /\ op = "serialize_sklearn"
    /\ ProbeRan /\ arg.probe = "NotFittedError"
    /\ arg.is_pipeline
    /\ outcome = Raise(UntrainedModelError)

\* ---------------------------------------------------------------------
\* C18: whenever the probe of the fitted check raises an exception other
\* than the not-fitted signal, serialization ends with that exception: it
\* is not swallowed, nothing is pickled and nothing is returned.
C18_ProbeErrorPropagates ==
    (pc # "probe" /\ ProbeRan /\ arg.probe \notin {"ok", "NotFittedError"})
    => (/\ pc = "serialize_done"
        /\ outcome = Raise(Exc(arg.probe, <<>>))
        /\ ~ Pickled
        /\ result = NoResult)

\* ---------------------------------------------------------------------
\* C19: _serialize_model fails with TypeError for an object that is not an
\* estimator, for an estimator whose class is defined outside sklearn and
\* for a Pipeline with at least one step defined outside sklearn; in each
\* case the probe of the fitted check is not run and no archive is
\* produced.
Unsupported(m) ==
    \/ ~ m.is_estimator
    \/ m.module # "sklearn."
    \/ m.is_pipeline /\ \E i \in DOMAIN m.steps : m.steps[i] # "sklearn."

C19_UnsupportedModel ==
    (op = "_serialize_model" /\ Unsupported(arg) /\ pc # "serialize")
    => (/\ pc = "serialize_done"
        /\ outcome.status = "raised"
        /\ outcome.exc.type = "TypeError"
        /\ log = <<>>
        /\ result = NoResult)

C19_Witness ==
    /\ pc = "serialize_done" /\ op = "_serialize_model"
    /\ arg.is_estimator /\ arg.module = "sklearn." /\ arg.is_pipeline
    /\ arg.steps = <<"sklearn.", "custom">>
    /\ arg.probe = "NotFittedError"
    /\ outcome.status = "raised" /\ outcome.exc.type = "TypeError"
    /\ log = <<>>

\* ---------------------------------------------------------------------
\* C20: once serialize_keras, serialize_lightgbm or serialize_xgboost has
\* left its try block, and so when it returns or raises, the temporary
\* file it wrote no longer exists: after a success, after a save that
\* failed and after a read-back that failed.
C20_TempFileCleanup ==
    (pc \in {"build", "temp_done"}) => ~ Exists(fs, tmp_file(op))

C20_Witness ==
    /\ pc = "temp_done" /\ op = "serialize_lightgbm"
    /\ log = <<"save failed, partial left", "remove">>
    /\ outcome = Raise(Exc("Exception", <<"save">>))
    /\ ~ Exists(fs, "tmp.txt")
    /\ Exists(fs, "tmp.h5")

\* ---------------------------------------------------------------------
\* C21: in every interleaving of two serializations through disk, of the
\* same adapter or of different ones, a call reads only bytes it wrote
\* itself, writes its file only where no file of the other call is, and
\* removes only a file it wrote itself.
C21_TempFileUniqueness ==
    \A i \in DOMAIN log :
        /\ log[i].act = "read" => log[i].found = log[i].proc
        /\ log[i].act \in {"save", "remove"}
             => log[i].found \in {"absent", log[i].proc}

\* ---------------------------------------------------------------------
\* C22: dependency resolution ends on every dependency graph, graphs with
\* cycles and with packages that require themselves included; within one
\* traversal of get_installed_versions each package is expanded at most
\* once; and the dict returned maps every package that can be reached from
\* the packages given to its installed version, and no other package.
\* That it ends shows in Resolve having computed an outcome for each of
\* the environments: the traversal is evaluated to its end.
RECURSIVE ReachedWithin(_, _, _)
ReachedWithin(env, packages, n) ==
    IF n = 0 THEN packages
    ELSE ReachedWithin(env,
                       packages \cup UNION { Range(env.requires[p]) : p \in packages },
                       n - 1)

Reachable(env, packages) ==
    ReachedWithin(env, packages, Cardinality(PackageNames))

NoRepetition(s) == \A i, j \in DOMAIN s : s[i] = s[j] => i = j

C22_ResolutionTerminates ==
    pc = "resolve_done" =>
         /\ \A t \in DOMAIN log : NoRepetition(log[t])
         /\ outcome = Return =>
              /\ Len(log) = Len(arg.packages)
              /\ \A t \in DOMAIN log :
                   Range(log[t]) = Reachable(arg.env, {arg.packages[t]})
              /\ DOMAIN result = Reachable(arg.env, Range(arg.packages))
              /\ \A p \in DOMAIN result : result[p] = VersionOf(p)

C22_Witness ==
    /\ pc = "resolve_done"
    /\ arg.packages = <<"a">>
    /\ arg.env.requires["a"] = <<"a", "b">>
    /\ arg.env.requires["b"] = <<"c", "a">>
    /\ arg.env.requires["c"] = <<"b">>
    /\ outcome = Return
    /\ log = << <<"a", "b", "c">> >>
    /\ DOMAIN result = {"a", "b", "c"}

\* ---------------------------------------------------------------------
\* C23: dependency resolution is idempotent: resolving the keys of the
\* dict that get_requirements returned, in any order, returns that same
\* dict, with the same packages and the same versions.
C23_Idempotent ==
    (pc = "again_done") => (~ resp.raised /\ resp.value = result)

C23_Witness ==
    /\ pc = "again_done"
    /\ arg.packages = <<"a", "b">>
    /\ arg.env.requires["a"] = <<"c">>
    /\ arg.env.requires["c"] = <<"a", "b">>
    /\ DOMAIN result = {"a", "b", "c"}
    /\ resp.value = result

\* ---------------------------------------------------------------------
\* C24: when a package given to get_requirements, or a package reached
\* from one through the requirements, is not installed, get_requirements
\* fails with the package-not-found error and returns no dict; it never
\* returns a dict without that package.
C24_MissingPackage ==
    (/\ pc = "resolve_done"
     /\ \E p \in Reachable(arg.env, Range(arg.packages)) : p \notin arg.env.installed)
    => (/\ outcome.status = "raised"
        /\ outcome.exc.type = "DistributionNotFound"
        /\ outcome.exc.msg[1] \notin arg.env.installed
        /\ result = NoResult)

C24_Witness ==
    /\ pc = "resolve_done"
    /\ arg.packages = <<"a", "b">>
    /\ arg.env.installed = {"a", "b"}
    /\ arg.env.requires["a"] = <<"b">>
    /\ arg.env.requires["b"] = <<"a", "c">>
    /\ outcome = Raise(Exc("DistributionNotFound", <<"c">>))
    /\ result = NoResult

\* ---------------------------------------------------------------------
\* C25: for every list of (path, bytes) pairs given to generate_zip, lists
\* in which two pairs have the same path included, the archive has one
\* entry for each pair, with its path and its exact bytes, and no other
\* entry; and the files read back from the archive are the pairs given:
\* the same paths, each with the bytes of its pair.
C25_ArchiveRoundTrip ==
    /\ pc \in {"zip_done", "unzip_done"} =>
         /\ Len(result.filelist) = Len(arg)
         /\ \A i \in DOMAIN arg :
              /\ result.filelist[i].filename = arg[i][1]
              /\ result.filelist[i].content = arg[i][2]
    /\ pc = "unzip_done" =>
         { <<name, resp[name]>> : name \in DOMAIN resp } = Range(arg)

\* ---------------------------------------------------------------------
\* C26: after a successful update with default=False the default version of
\* the model is the one it was before the update; after a successful update
\* with default=True the default version of the model is the version the
\* update created.
C26_UpdateDefault ==
    (pc = "done" /\ op = "update" /\ outcome = Return) =>
        IF arg.default
        THEN /\ handle.default_version # NoVersion
             /\ handle.default_version.id = ModelVersion(deploy_resp).id
        ELSE handle.default_version.id = before.default_version.id

\* ---------------------------------------------------------------------
\* C27: every model object of a supported framework, the scikit-learn-style
\* wrappers of keras, xgboost and lightgbm included, is claimed by exactly
\* one of is_sklearn, is_keras, is_pytorch, is_lightgbm, is_xgboost and
\* is_fastai, never by two.
C27_DetectionUnambiguous ==
    (pc = "detect_done" /\ arg.model \in SupportedObjects) =>
        Cardinality(result) = 1

\* A scikit-learn-style wrapper has been put to the predicates.
C27_Witness ==
    /\ pc = "detect_done"
    /\ arg.model.name \in {"KerasClassifier", "XGBClassifier", "LGBMClassifier"}
    /\ result = {"is_sklearn"}

HandleRequests ==
    {"delete", "rename", "versions", "get_version", "predict", "predict_batch"}

\* The step keeps the handle object: get_model has not put a new one in its
\* place.
SameHandle ==
    /\ handle # NoHandle
    /\ handle' # NoHandle
    /\ ~(pc = "idle" /\ op' = "get_model")

\* C29: when the DELETE request of BlazeeModel.delete fails, the error of
\* the request reaches the caller and the handle is as it was, its deleted
\* flag false, so that the next operation of the handle sends its request;
\* the flag becomes true only in a delete whose DELETE request succeeded,
\* and a flag that is true stays true.
C29_FailedDeleteLeavesHandleLive ==
    /\ [](pc = "done" /\ op = "delete" /\ log # <<>> /\ outcome.status = "raised"
          => /\ handle = before
             /\ ~handle._deleted
             /\ outcome.exc # DeletedError
             /\ log[1].method = "DELETE")
    /\ [][SameHandle =>
            /\ handle._deleted => handle'._deleted
            /\ (~handle._deleted /\ handle'._deleted) =>
                 /\ op' = "delete" /\ outcome' = Return
                 /\ log' = <<Request("DELETE", "/models/{id}", handle.id, 200)>>
            /\ (pc = "idle" /\ op' \in HandleRequests /\ ~handle._deleted) =>
                 /\ log' # <<>>
                 /\ log'[1].id = handle.id]_vars

\* A delete whose DELETE request failed has ended, and the handle is live.
C29_Witness ==
    /\ pc = "done" /\ op = "delete" /\ outcome.status = "raised"
    /\ log # <<>> /\ log[1].method = "DELETE" /\ log[1].status >= 400
    /\ ~handle._deleted

\* ---------------------------------------------------------------------
\* The operations of a ModelVersion.
VersionOps == {"version_predict", "version_predict_batch", "make_default"}

\* C30: after delete() has succeeded on a handle, an operation of a
\* ModelVersion that refers to the handle (predict, predict_batch,
\* make_default and the refresh of the handle it ends with) sends no request
\* for the id of the model and ends with the deleted-handle error.
C30_NoRequestThroughVersions ==
    (op \in VersionOps /\ before._deleted)
    => (/\ pc = "done"
        /\ outcome = Raise(DeletedError)
        /\ \A i \in DOMAIN log : log[i].id # before.id)

====
